---- MODULE Spec2Model ----
(***************************************************************************)
(* Budget-Planner: MT940 import.                                           *)
(*                                                                         *)
(* Spec       the reconciliation engine (insert_all_data_to_db) run over   *)
(*            the SQLite tables, one action per loop iteration.            *)
(* SpecCentury  the same engine over statements dated around the year     *)
(*            2000 and around the pivot year of get_iso_date.              *)
(* SpecRead   the tokenizer (split_toblocks_mt940) and the parser          *)
(*            (parse_block) run over the text of a file, one action per    *)
(*            loop iteration.                                              *)
(*                                                                         *)
(* Money is kept in cents (two decimals), ISO dates "YYYY-MM-DD" as the    *)
(* number YYYYMMDD (same order as the text), raw MT940 dates as the text   *)
(* the parser cut out of the block.  Python's None is NoneStr for text     *)
(* fields and the empty tuple for optional tuples / numbers.               *)
(***************************************************************************)
EXTENDS Integers, Sequences, FiniteSets, TLC

VARIABLES
    tbl_Account,          \* rows of tbl_Account, row id = index
    tbl_Transaction,      \* rows of tbl_Transaction, in insertion order
    tbl_AccountHistory,   \* rows of tbl_AccountHistory
    tbl_Counterparty,     \* rows of tbl_Counterparty
    tbl_TransactionTyp,   \* rows of tbl_TransactionTyp
    pc,                   \* where insert_all_data_to_db stands
    data,                 \* the parsed file handed to insert_all_data_to_db
    idx,                  \* loop index of the running loop
    closing_balance,      \* list collected by insert_transactions
    latest,               \* dict built by insert_account_history_entries
    counters,             \* the four number_* counters
    raised,               \* exception that left insert_all_data_to_db
    today,                \* the current date (ISO number)
    imports,              \* imports started so far
    prompts,              \* account numbers the NameInputDialog was shown for
    faults,               \* SQLite failures so far
    before,               \* the tables when this import began, and whether
                          \* it repeats the file of a completed import
    last_call,            \* the repository calls of the last loop iteration
    accepted,             \* per account id, record dates of accepted updates
    file_content,         \* the text read from the MT940 file
    at,                   \* where the reading of the file stands
    lines,                \* split_toblocks_mt940: file_content.split('\n')
    pos,                  \* index of the line / block of the running loop
    current_block,        \* split_toblocks_mt940: lines of the open block
    blocks,               \* the blocks split_toblocks_mt940 returns
    temp,                 \* parse_block: the temp_* variables
    last_block_86,        \* parse_block: a :86: block awaits its flush
    parsed_data,          \* parse_block: the records gathered so far
    parse_raised          \* exception that left parse_block

dbVars == <<tbl_Account, tbl_Transaction, tbl_AccountHistory,
            tbl_Counterparty, tbl_TransactionTyp>>
runVars == <<pc, data, idx, closing_balance, latest, counters, raised,
             today, imports, prompts, faults>>
obsVars == <<before, last_call, accepted>>
readVars == <<file_content, at, lines, pos, current_block, blocks, temp,
              last_block_86, parsed_data, parse_raised>>
vars == <<dbVars, runVars, obsVars, readVars>>

----------------------------------------------------------------------------
(* Bounds *)

MaxTxn == 2
MaxImports == 2
MaxFaults == 1

----------------------------------------------------------------------------
(* Text and number helpers *)

NoneStr == "<None>"

Digits == <<"0", "1", "2", "3", "4", "5", "6", "7", "8", "9">>

Char(s, i) == SubSeq(s, i, i)

isdigit(s) ==
    /\ Len(s) > 0
    /\ \A i \in 1..Len(s) : \E d \in 1..10 : Digits[d] = Char(s, i)

DigitVal(c) == (CHOOSE d \in 1..10 : Digits[d] = c) - 1

RECURSIVE int(_)
int(s) == IF Len(s) = 0 THEN 0
          ELSE 10 * int(SubSeq(s, 1, Len(s) - 1)) + DigitVal(Char(s, Len(s)))

DaysInMonth(y, m) ==
    IF m \in {4, 6, 9, 11} THEN 30
    ELSE IF m = 2
         THEN (IF (y % 4 = 0 /\ y % 100 # 0) \/ y % 400 = 0 THEN 29 ELSE 28)
         ELSE 31

ValueError == -1

\* get_iso_date(date): YYMMDD text -> YYYY-MM-DD, ValueError when the text is
\* not six digits or names no calendar day.
get_iso_date(date) ==
    IF date = NoneStr \/ Len(date) # 6 \/ ~isdigit(date) THEN ValueError
    ELSE LET year == int(SubSeq(date, 1, 2))
             month == int(SubSeq(date, 3, 4))
             day == int(SubSeq(date, 5, 6))
             full_year == IF year < 70 THEN 2000 + year ELSE 1900 + year
         IN IF month \in 1..12 /\ day \in 1..DaysInMonth(full_year, month)
            THEN full_year * 10000 + month * 100 + day
            ELSE ValueError

\* rti_date[:2]: the first two characters of the ISO text.
IsoPrefix2(iso) ==
    LET c == iso \div 1000000
    IN Digits[(c \div 10) + 1] \o Digits[(c % 10) + 1]

\* first day of this month minus one day (get_last_balance)
last_day_last_month(t) ==
    LET y == t \div 10000
        m == (t \div 100) % 100
    IN IF m = 1 THEN (y - 1) * 10000 + 1231
       ELSE y * 10000 + (m - 1) * 100 + DaysInMonth(y, m - 1)

----------------------------------------------------------------------------
(* float(text) in cents.  The texts the import sees are digit runs with at   *)
(* most one decimal point (the parser replaced the comma); anything else is  *)
(* a ValueError.  Decimals beyond the second are below a cent.               *)

DotPos(s) ==
    IF \E i \in 1..Len(s) : Char(s, i) = "."
    THEN CHOOSE i \in 1..Len(s) :
            Char(s, i) = "." /\ \A j \in 1..(i - 1) : Char(s, j) # "."
    ELSE 0

FloatError == -999999999

float(s) ==
    IF s = NoneStr \/ Len(s) = 0 THEN FloatError
    ELSE LET neg == Char(s, 1) = "-"
             body == IF neg THEN SubSeq(s, 2, Len(s)) ELSE s
             dot == DotPos(body)
             whole == IF dot = 0 THEN body ELSE SubSeq(body, 1, dot - 1)
             frac == IF dot = 0 THEN "" ELSE SubSeq(body, dot + 1, Len(body))
             ok == /\ Len(whole) + Len(frac) > 0
                   /\ (Len(whole) = 0 \/ isdigit(whole))
                   /\ (Len(frac) = 0 \/ isdigit(frac))
             cents == IF Len(frac) = 0 THEN 0
                      ELSE IF Len(frac) = 1 THEN 10 * int(frac)
                      ELSE int(SubSeq(frac, 1, 2))
             mag == 100 * int(whole) + cents
         IN IF ~ok THEN FloatError ELSE IF neg THEN 0 - mag ELSE mag

----------------------------------------------------------------------------
(* Python's str operations, on 0-based offsets as in the source.             *)

\* s[a:b]: a negative offset counts from the end, offsets are clamped.
Slice(s, a, b) ==
    LET n == Len(s)
        lo0 == IF a < 0 THEN a + n ELSE a
        lo == IF lo0 < 0 THEN 0 ELSE IF lo0 > n THEN n ELSE lo0
        hi0 == IF b < 0 THEN b + n ELSE b
        hi == IF hi0 < 0 THEN 0 ELSE IF hi0 > n THEN n ELSE hi0
    IN IF lo >= hi THEN "" ELSE SubSeq(s, lo + 1, hi)

\* s[a:]
SliceFrom(s, a) == Slice(s, a, Len(s))

\* s[i] is an IndexError outside the text.
IndexError(s, i) == i < 0 - Len(s) \/ i >= Len(s)

\* s[i], where it is no IndexError.
Index(s, i) == IF i < 0 THEN Char(s, i + Len(s) + 1) ELSE Char(s, i + 1)

\* s.find(sub, start): the lowest offset >= start where sub begins, -1 if none.
find(s, sub, start) ==
    LET n == Len(s)
        m == Len(sub)
        lo0 == IF start < 0 THEN start + n ELSE start
        lo == IF lo0 < 0 THEN 0 ELSE lo0
        hits == {i \in lo..(n - m) : SubSeq(s, i + 1, i + m) = sub}
    IN IF hits = {} THEN 0 - 1
       ELSE CHOOSE i \in hits : \A j \in hits : i <= j

\* s.startswith(prefix)
startswith(s, prefix) == Slice(s, 0, Len(prefix)) = prefix

\* s.replace(old, new): every occurrence, left to right, not overlapping.
RECURSIVE replace(_, _, _)
replace(s, old, new) ==
    LET i == find(s, old, 0)
    IN IF i < 0 THEN s
       ELSE Slice(s, 0, i) \o new
            \o replace(SliceFrom(s, i + Len(old)), old, new)

\* s.split(sep)
RECURSIVE split(_, _)
split(s, sep) ==
    LET i == find(s, sep, 0)
    IN IF i < 0 THEN <<s>>
       ELSE <<Slice(s, 0, i)>> \o split(SliceFrom(s, i + Len(sep)), sep)

\* sep.join(parts)
RECURSIVE join(_, _)
join(sep, parts) ==
    IF Len(parts) = 0 THEN ""
    ELSE IF Len(parts) = 1 THEN parts[1]
    ELSE parts[1] \o sep \o join(sep, Tail(parts))

Whitespace == {" ", "\t", "\r", "\n", "\f"}

\* s.strip(): the text without its leading and trailing whitespace.
RECURSIVE strip(_)
strip(s) ==
    IF Len(s) = 0 THEN s
    ELSE IF Char(s, 1) \in Whitespace THEN strip(SubSeq(s, 2, Len(s)))
    ELSE IF Char(s, Len(s)) \in Whitespace THEN strip(SubSeq(s, 1, Len(s) - 1))
    ELSE s

----------------------------------------------------------------------------
(* The tables (createdatabase_utils.py) and the repository functions.  Every *)
(* function works on the table it is given and returns the table it leaves. *)

RowIds(tbl) == 1..Len(tbl)

\* The id of the first of these rows (the row fetchone() returns), 0 when
\* there is none.
FirstRow(rows) ==
    IF rows = {} THEN 0
    ELSE CHOOSE i \in rows : \A j \in rows : i <= j

\* account_utils.get_account_id with supplied_data = [False, True, False,
\* False]: the id of the row with that number, 0 for NoAccountFoundError.
\* "str_AccountNumber = NULL" matches no row.
get_account_id(tbl, number) ==
    LET Match(r) == number # NoneStr /\ r.number = number
    IN FirstRow({i \in RowIds(tbl) : Match(tbl[i])})

\* account_utils.add_account: position = MAX(position) + 1 (0 in an empty
\* table), change_date = today, INSERT under the UNIQUE NOT NULL columns of
\* tbl_Account.  ok = FALSE is the sqlite3.IntegrityError, raised as Error.
add_account(tbl, name, number, balance, difference, record_date, t) ==
    LET position == IF Len(tbl) = 0 THEN 0
                    ELSE 1 + (CHOOSE m \in {tbl[i].position : i \in RowIds(tbl)} :
                                \A i \in RowIds(tbl) : tbl[i].position <= m)
        clash == \/ name = NoneStr
                 \/ number = NoneStr
                 \/ \E i \in RowIds(tbl) :
                       tbl[i].name = name \/ tbl[i].number = number
        row == [position |-> position, name |-> name, number |-> number,
                balance |-> balance, difference |-> difference,
                record_date |-> record_date, change_date |-> t]
    IN IF clash THEN [ok |-> FALSE, tbl |-> tbl]
       ELSE [ok |-> TRUE, tbl |-> Append(tbl, row)]

\* The default record_date of add_account_mt940: get_iso_date(date="010101").
DefaultRecordDate == get_iso_date("010101")

\* add_account_mt940 without the random fallback: the dialog's answer is the
\* name, also when there is none.
add_account_mt940_without_fallback(tbl, number, response, random_name, balance, t) ==
    LET bal == IF balance = <<>> THEN 0 ELSE balance[1]
    IN IF number = NoneStr THEN [ok |-> FALSE, tbl |-> tbl]
       ELSE add_account(tbl, response, number, bal, 0, get_iso_date("010101"), t)

\* account_utils.add_account_mt940(number, master, balance): response is what
\* NameInputDialog left in dialog.name (NoneStr when cancelled), random_name
\* the eight random letters used when it is empty.
add_account_mt940(tbl, number, response, random_name, balance, t) ==
    LET name == IF response = NoneStr \/ response = "" THEN random_name
                ELSE response
        bal == IF balance = <<>> THEN 0 ELSE balance[1]
    IN IF number = NoneStr THEN [ok |-> FALSE, tbl |-> tbl]
       ELSE add_account(tbl, name, number, bal, 0, DefaultRecordDate, t)

\* transaction_typ_utils.get_transaction_typ_id with both fields supplied;
\* 0 stands for Error("No matching transaction type found.").
get_transaction_typ_id(tbl, name, number) ==
    LET Match(r) == /\ name # NoneStr /\ number # NoneStr
                    /\ r.name = name /\ r.number = number
    IN FirstRow({i \in RowIds(tbl) : Match(tbl[i])})

\* transaction_typ_utils.add_transaction_typ: both columns NOT NULL.
add_transaction_typ(tbl, name, number) ==
    IF name = NoneStr \/ number = NoneStr THEN [ok |-> FALSE, tbl |-> tbl]
    ELSE [ok |-> TRUE, tbl |-> Append(tbl, [name |-> name, number |-> number])]

\* counterparty_utils.get_counterparty_id(data=[name, number], supplied_data);
\* 0 stands for Error("No matching counterparty found.").
get_counterparty_id(tbl, name, number, supplied_data) ==
    LET Match(r) ==
            /\ supplied_data[1] => (name # NoneStr /\ r.name = name)
            /\ supplied_data[2] => (number # NoneStr /\ r.number = number)
    IN FirstRow({i \in RowIds(tbl) : Match(tbl[i])})

\* counterparty_utils.add_counterparty: name and number are UNIQUE NOT NULL.
add_counterparty(tbl, name, number) ==
    LET clash == \/ name = NoneStr
                 \/ number = NoneStr
                 \/ \E i \in RowIds(tbl) :
                       tbl[i].name = name \/ tbl[i].number = number
    IN IF clash THEN [ok |-> FALSE, tbl |-> tbl]
       ELSE [ok |-> TRUE, tbl |-> Append(tbl, [name |-> name, number |-> number])]

\* The SELECT of transaction_utils.add_transaction: a row equal on the eight
\* key columns (not on str_UserComments, str_DisplayedName).
TransactionKey(r) ==
    <<r.account_id, r.date, r.bookingdate, r.tt_id, r.amount, r.purpose,
      r.counterparty_id, r.category_id>>

\* The SELECT with the two nullable columns added to its WHERE clause:
\* "str_UserComments = NULL" matches no row.
transaction_exists_on_all_columns(tbl, row) ==
    \E i \in RowIds(tbl) :
       /\ TransactionKey(tbl[i]) = TransactionKey(row)
       /\ row.user_comments # NoneStr
       /\ tbl[i].user_comments = row.user_comments
       /\ row.displayed_name # NoneStr
       /\ tbl[i].displayed_name = row.displayed_name

transaction_exists(tbl, row) ==
    \E i \in RowIds(tbl) : TransactionKey(tbl[i]) = TransactionKey(row)

\* add_transaction without its SELECT: every row is inserted.
add_transaction_without_select(tbl, row) ==
    IF row.purpose = NoneStr \/ row.amount = <<>>
    THEN [res |-> "error", tbl |-> tbl]
    ELSE [res |-> "ok", tbl |-> Append(tbl, row)]

\* add_transaction without conn.commit(): the INSERT is lost when the import
\* ends.
add_transaction_uncommitted(tbl, row) ==
    IF transaction_exists(tbl, row) THEN [res |-> "exists", tbl |-> tbl]
    ELSE IF row.purpose = NoneStr \/ row.amount = <<>>
    THEN [res |-> "error", tbl |-> tbl]
    ELSE [res |-> "ok", tbl |-> tbl]

\* transaction_utils.add_transaction: "exists" is AlreadyExistsError,
\* "error" the IntegrityError of str_Purpose / real_Amount NOT NULL raised as
\* Error.
add_transaction(tbl, row) ==
    IF transaction_exists(tbl, row) THEN [res |-> "exists", tbl |-> tbl]
    ELSE IF row.purpose = NoneStr \/ row.amount = <<>>
    THEN [res |-> "error", tbl |-> tbl]
    ELSE [res |-> "ok", tbl |-> Append(tbl, row)]

\* add_account_history as with manual_entry = True: no look-up of the pair.
add_account_history_manual_entry(tbl, account_id, balance, record_date, change_date) ==
    [res |-> "ok",
     tbl |-> Append(tbl, [account_id |-> account_id, balance |-> balance,
                          record_date |-> record_date,
                          change_date |-> change_date])]

\* add_account_history with the two dates of its INSERT in each other's place.
add_account_history_dates_swapped(tbl, account_id, balance, record_date, change_date) ==
    IF \E i \in RowIds(tbl) :
          tbl[i].account_id = account_id /\ tbl[i].record_date = change_date
    THEN [res |-> "exists", tbl |-> tbl]
    ELSE [res |-> "ok",
          tbl |-> Append(tbl, [account_id |-> account_id, balance |-> balance,
                               record_date |-> change_date,
                               change_date |-> record_date])]

\* account_history_utils.add_account_history with manual_entry = False:
\* "exists" is ExistingAccountHistoryError.
add_account_history(tbl, account_id, balance, record_date, change_date) ==
    IF \E i \in RowIds(tbl) :
          tbl[i].account_id = account_id /\ tbl[i].record_date = record_date
    THEN [res |-> "exists", tbl |-> tbl]
    ELSE [res |-> "ok",
          tbl |-> Append(tbl, [account_id |-> account_id, balance |-> balance,
                               record_date |-> record_date,
                               change_date |-> change_date])]

\* account_history_utils.get_last_balance: the balance of the account's row
\* with the greatest str_RecordDate below last_day_last_month, as <<balance>>;
\* <<>> is NoAccountHistoryFoundError.
get_last_balance(tbl, account_id, t) ==
    LET rows == {i \in RowIds(tbl) :
                    /\ tbl[i].account_id = account_id
                    /\ tbl[i].record_date < last_day_last_month(t)}
    IN IF rows = {} THEN <<>>
       ELSE LET top == CHOOSE i \in rows :
                          \A j \in rows :
                             \/ tbl[j].record_date < tbl[i].record_date
                             \/ (tbl[j].record_date = tbl[i].record_date /\ i <= j)
            IN <<tbl[top].balance>>

\* No staleness test.
record_never_too_old(new_record_date, current_record_date) == FALSE

\* The staleness test with <= for <.
record_too_old_or_same(new_record_date, current_record_date) ==
    new_record_date <= current_record_date

\* The staleness test of account_utils.update_account.
record_too_old(new_record_date, current_record_date) ==
    new_record_date < current_record_date

\* account_utils.update_account(account_id, ["", "", "", balance, difference,
\* record_date, change_date]): res is "updated", "nochange"
\* (NoChangesDetectedError), "stale" (RecordTooOldError) or "error" (Error: no
\* row with that id).
update_account(tbl, account_id, balance, difference, record_date, change_date) ==
    IF account_id \notin RowIds(tbl) THEN [res |-> "error", tbl |-> tbl]
    ELSE LET cur == tbl[account_id]
             new == [cur EXCEPT !.balance = balance, !.difference = difference,
                                !.record_date = record_date,
                                !.change_date = change_date]
         IN IF record_too_old(record_date, cur.record_date)
            THEN [res |-> "stale", tbl |-> tbl]
            ELSE IF new = cur THEN [res |-> "nochange", tbl |-> tbl]
            ELSE [res |-> "updated", tbl |-> [tbl EXCEPT ![account_id] = new]]

----------------------------------------------------------------------------
(* Python's order on text (by code point), for the characters a date text   *)
(* can hold.                                                                *)

Alphabet == " +,-./0123456789:?ABCDEFGHIJKLMNOPQRSTUVWXYZabcdefghijklmnopqrstuvwxyz"

ord(c) == CHOOSE k \in 1..Len(Alphabet) : Char(Alphabet, k) = c

RECURSIVE str_gt(_, _)
str_gt(a, b) ==
    IF Len(a) = 0 THEN FALSE
    ELSE IF Len(b) = 0 THEN TRUE
    ELSE IF Char(a, 1) # Char(b, 1) THEN ord(Char(a, 1)) > ord(Char(b, 1))
    ELSE str_gt(SubSeq(a, 2, Len(a)), SubSeq(b, 2, Len(b)))

----------------------------------------------------------------------------
(* split_toblocks_mt940 and parse_block.  A number or None is <<n>> or <<>>, *)
(* a tuple or None the tuple or <<>>, a text or None the text or NoneStr.    *)

\* parse_block, lines 72-86.
NoTemp ==
    [temp_transaction_type_number |-> NoneStr,
     temp_transaction_type_name |-> NoneStr,
     temp_reference |-> NoneStr,
     temp_account_number |-> NoneStr,
     temp_opening_balance |-> <<>>,
     temp_date |-> NoneStr,
     temp_bookingdate |-> NoneStr,
     temp_amount_type |-> <<>>,
     temp_currency |-> NoneStr,
     temp_amount |-> <<>>,
     temp_purpose_adition |-> NoneStr,
     temp_purpose |-> NoneStr,
     temp_counterparty_name |-> NoneStr,
     temp_counterparty_account |-> NoneStr,
     temp_closing_balance |-> <<>>]

\* No file is being read.
NoRead ==
    /\ file_content = ""
    /\ at = "idle"
    /\ lines = <<>>
    /\ pos = 0
    /\ current_block = <<>>
    /\ blocks = <<>>
    /\ temp = NoTemp
    /\ last_block_86 = FALSE
    /\ parsed_data = <<>>
    /\ parse_raised = ""

\* The dictionary has no such key.
NoKey == "<no key>"

\* "Gathering all data": the dictionary built from the temp_* variables, at
\* a :61: block (lines 109-124) with the key Currency, at a :62F: block
\* (lines 216-228) without it.
transaction(t, currency) ==
    [Reference |-> t.temp_reference,
     Account |-> t.temp_account_number,
     OpeningBalance |-> t.temp_opening_balance,
     Date |-> t.temp_date,
     Bookingdate |-> t.temp_bookingdate,
     Currency |-> currency,
     Amount |-> t.temp_amount,
     TransactionTypeNumber |-> t.temp_transaction_type_number,
     TransactionTypeName |-> t.temp_transaction_type_name,
     PurposeAddition |-> t.temp_purpose_adition,
     Purpose |-> t.temp_purpose,
     CounterpartyAccount |-> t.temp_counterparty_account,
     CounterpartyName |-> t.temp_counterparty_name,
     ClosingBalance |-> t.temp_closing_balance]

\* What one iteration of the loop of parse_block leaves: err names the
\* exception that ends parse_block ("" for none).
Parsed(err, t, l86, pd) ==
    [err |-> err, temp |-> t, last_block_86 |-> l86, parsed_data |-> pd]

\* ":20:", lines 91-94.
parse_20(block, t, l86, pd) ==
    Parsed("", [t EXCEPT !.temp_reference = SliceFrom(block, 4)], FALSE, pd)

\* ":25:", lines 96-97.
parse_25(block, t, l86, pd) ==
    Parsed("", [t EXCEPT !.temp_account_number = SliceFrom(block, 13)], l86, pd)

\* ":60F:", lines 99-103.
parse_60F(block, t, l86, pd) ==
    LET value == float(replace(SliceFrom(block, 15), ",", "."))
        signed == IF Index(block, 6) = "D" THEN 0 - value ELSE value
    IN IF value = FloatError THEN Parsed("ValueError", t, l86, pd)
       ELSE Parsed("", [t EXCEPT !.temp_opening_balance = <<signed>>], l86, pd)

\* The first offset >= 11 of a digit, <<>> when there is none (lines 145-149).
amount_start_of(block) ==
    LET hits == {i \in 11..(Len(block) - 1) : isdigit(Index(block, i))}
    IN IF hits = {} THEN <<>>
       ELSE <<CHOOSE i \in hits : \A j \in hits : i <= j>>

\* lines 152-157
amount_end_search_param_of(block) ==
    IF find(block, "S", 0) >= 0 THEN "S"
    ELSE IF find(block, "N", 0) >= 0 THEN "N"
    ELSE "F"

\* ":61:", lines 105-160: the flush of the pending transaction, then the
\* date, the bookingdate, the sign, the currency letter and the amount.
parse_61(block, t, l86, pd) ==
    LET flushed == IF l86 THEN Append(pd, transaction(t, t.temp_currency))
                   ELSE pd
        b == SliceFrom(block, 4)
        mark == Slice(b, 10, 12)
        amount_type == IF Index(b, 10) = "C" \/ mark = "RD" THEN 1 ELSE 0 - 1
        currency_position == IF mark = "RC" \/ mark = "RD" THEN 12 ELSE 11
        amount_start == amount_start_of(b)
        \* find(x, None) searches from 0, block[None:e] is block[:e]
        start == IF amount_start = <<>> THEN 0 ELSE amount_start[1]
        amount_end == find(b, amount_end_search_param_of(b), start)
        value == float(replace(Slice(b, start, amount_end), ",", "."))
    IN IF IndexError(b, 10) \/ IndexError(b, currency_position)
       THEN Parsed("IndexError", t, l86, pd)
       ELSE IF value = FloatError THEN Parsed("ValueError", t, l86, pd)
       ELSE Parsed("",
                   [t EXCEPT !.temp_date = Slice(b, 0, 6),
                             !.temp_bookingdate = Slice(b, 6, 10),
                             !.temp_amount_type = <<amount_type>>,
                             !.temp_currency = Index(b, currency_position),
                             !.temp_amount = <<value * amount_type>>],
                   FALSE, flushed)

\* f'?{i}' for i in 20..29
field_tag(i) == "?" \o Digits[(i \div 10) + 1] \o Digits[(i % 10) + 1]

\* lines 170-176: the texts of the fields ?i .. ?29 the block has.
RECURSIVE purpose_fields(_, _)
purpose_fields(block, i) ==
    IF i >= 30 THEN <<>>
    ELSE LET start == find(block, field_tag(i), 0) + 3
             next_qmark == find(block, "?", start)
             end == IF next_qmark >= 0 THEN next_qmark ELSE Len(block)
         IN (IF find(block, field_tag(i), 0) >= 0
             THEN <<Slice(block, start, end)>> ELSE <<>>)
            \o purpose_fields(block, i + 1)

\* block[find(tag) + 3 : find('?', find(tag) + 3)], lines 190-203.
subfield(block, tag) ==
    LET start == find(block, tag, 0) + 3
    IN Slice(block, start, find(block, "?", start))

\* ":86:", lines 162-205.
parse_86(block, t, l86, pd) ==
    LET b == SliceFrom(block, 4)
        joined == join(" ", purpose_fields(b, 20))
        adition == IF startswith(joined, "SVWZ+") THEN "SVWZ"
                   ELSE IF startswith(joined, "EREF+") THEN "EREF"
                   ELSE IF startswith(joined, "KREF+") THEN "KREF"
                   ELSE t.temp_purpose_adition
        purpose == replace(replace(replace(joined, "SVWZ+", ""), "EREF+", ""),
                           "KREF+", "")
        name == subfield(b, "?32")
    IN Parsed("",
              [t EXCEPT
                 !.temp_transaction_type_number = Slice(b, 0, 3),
                 !.temp_transaction_type_name = Slice(b, 6, find(b, "?", 6)),
                 !.temp_purpose = purpose,
                 !.temp_purpose_adition = adition,
                 !.temp_counterparty_account = subfield(b, "?31"),
                 !.temp_counterparty_name =
                     IF find(b, "?33", 0) >= 0
                     THEN name \o " " \o subfield(b, "?33")
                     ELSE name],
              TRUE, pd)

\* ":62F:" without the reset of temp_closing_balance (line 245).
parse_62F_closing_balance_kept(block, t, l86, pd) ==
    LET b == SliceFrom(block, 5)
        closed == [t EXCEPT !.temp_closing_balance =
                      <<t.temp_account_number, Slice(b, 1, 7),
                        Slice(replace(SliceFrom(b, 10), ",", "."), 0, 0 - 1)>>]
    IN Parsed("",
              [closed EXCEPT !.temp_reference = NoneStr,
                             !.temp_account_number = NoneStr,
                             !.temp_opening_balance = <<>>,
                             !.temp_date = NoneStr,
                             !.temp_bookingdate = NoneStr,
                             !.temp_amount_type = <<>>,
                             !.temp_amount = <<>>,
                             !.temp_purpose_adition = NoneStr,
                             !.temp_purpose = NoneStr,
                             !.temp_counterparty_name = NoneStr],
              l86, Append(pd, transaction(closed, NoKey)))

\* ":62F:", lines 207-245: the closing balance, the flush, the reset.
parse_62F(block, t, l86, pd) ==
    LET b == SliceFrom(block, 5)
        closing_balance_date == Slice(b, 1, 7)
        balance_text == Slice(replace(SliceFrom(b, 10), ",", "."), 0, 0 - 1)
        closed == [t EXCEPT !.temp_closing_balance =
                      <<t.temp_account_number, closing_balance_date,
                        balance_text>>]
    IN Parsed("",
              [closed EXCEPT !.temp_reference = NoneStr,
                             !.temp_account_number = NoneStr,
                             !.temp_opening_balance = <<>>,
                             !.temp_date = NoneStr,
                             !.temp_bookingdate = NoneStr,
                             !.temp_amount_type = <<>>,
                             !.temp_amount = <<>>,
                             !.temp_purpose_adition = NoneStr,
                             !.temp_purpose = NoneStr,
                             !.temp_counterparty_name = NoneStr,
                             !.temp_closing_balance = <<>>],
              l86, Append(pd, transaction(closed, NoKey)))

\* The body of the loop of parse_block (lines 88-245) for one block.
parse_one(block, t, l86, pd) ==
    IF startswith(block, ":20:") THEN parse_20(block, t, l86, pd)
    ELSE IF startswith(block, ":25:") THEN parse_25(block, t, l86, pd)
    ELSE IF startswith(block, ":60F:") THEN parse_60F(block, t, l86, pd)
    ELSE IF startswith(block, ":61:") THEN parse_61(block, t, l86, pd)
    ELSE IF startswith(block, ":86:") THEN parse_86(block, t, l86, pd)
    ELSE IF startswith(block, ":62F:") THEN parse_62F(block, t, l86, pd)
    ELSE Parsed("", t, l86, pd)

\* The loop of parse_block (lines 88-245) from block i of blks on, entered
\* with the temp_* variables t, last_block_86 = l86 and parsed_data = pd.
RECURSIVE parse_blocks(_, _, _, _, _)
parse_blocks(blks, i, t, l86, pd) ==
    IF i > Len(blks) THEN Parsed("", t, l86, pd)
    ELSE LET r == parse_one(blks[i], t, l86, pd)
         IN IF r.err # "" THEN r
            ELSE parse_blocks(blks, i + 1, r.temp, r.last_block_86,
                              r.parsed_data)

\* parse_block(blocks), lines 59-248.
parse_block(blks) == parse_blocks(blks, 1, NoTemp, FALSE, <<>>)

\* The loop body without the test of line.strip(): a blank line is appended
\* to the open block.
split_line_blank_kept(line, cur, blks) ==
    IF startswith(line, ":")
    THEN [current_block |-> <<line>>,
          blocks |-> IF cur # <<>> THEN Append(blks, join("", cur)) ELSE blks]
    ELSE [current_block |-> Append(cur, line), blocks |-> blks]

\* The loop body with a blank line that ends the open block.
split_line_blank_breaks(line, cur, blks) ==
    IF startswith(line, ":")
    THEN [current_block |-> <<line>>,
          blocks |-> IF cur # <<>> THEN Append(blks, join("", cur)) ELSE blks]
    ELSE IF strip(line) # ""
    THEN [current_block |-> Append(cur, line), blocks |-> blks]
    ELSE [current_block |-> <<>>,
          blocks |-> IF cur # <<>> THEN Append(blks, join("", cur)) ELSE blks]

\* The body of the loop of split_toblocks_mt940 (lines 39-49) for one line.
split_line(line, cur, blks) ==
    IF startswith(line, ":")
    THEN [current_block |-> <<line>>,
          blocks |-> IF cur # <<>> THEN Append(blks, join("", cur)) ELSE blks]
    ELSE IF strip(line) # ""
    THEN [current_block |-> Append(cur, line), blocks |-> blks]
    ELSE [current_block |-> cur, blocks |-> blks]

\* The loop of split_toblocks_mt940 from line i of ls on, then lines 52-55.
RECURSIVE split_lines(_, _, _, _)
split_lines(ls, i, cur, blks) ==
    IF i > Len(ls)
    THEN IF cur # <<>> THEN Append(blks, join("", cur)) ELSE blks
    ELSE LET r == split_line(ls[i], cur, blks)
         IN split_lines(ls, i + 1, r.current_block, r.blocks)

\* split_toblocks_mt940(file_content), lines 35-55.
split_toblocks_mt940(text) == split_lines(split(text, "\n"), 1, <<>>, <<>>)

----------------------------------------------------------------------------
(* Inputs: parsed files (lists of the dictionaries parse_block returns), the *)
(* current date, what the user types into NameInputDialog, the random name,  *)
(* and the call, if any, at which SQLite fails (sqlite3.Error) in one loop   *)
(* iteration.                                                                *)

Entry(account, opening, date, bookingdate, amount, purpose, cp_account, cp_name, closing) ==
    [Reference |-> "REF1", Account |-> account, OpeningBalance |-> opening,
     Date |-> date, Bookingdate |-> bookingdate, Currency |-> "E",
     Amount |-> <<amount>>, TransactionTypeNumber |-> "166",
     TransactionTypeName |-> "GUTSCHRIFT", PurposeAddition |-> NoneStr,
     Purpose |-> purpose, CounterpartyAccount |-> cp_account,
     CounterpartyName |-> cp_name, ClosingBalance |-> closing]

Entries ==
    { Entry("A1", <<10000>>, "230115", "0115", 5000, "Rent", "CP1", "ACME",
            <<>>),
      Entry("A1", <<10000>>, "230120", "0120", 0 - 2000, "Shop", "CP1", "ACME",
            <<"A1", "230131", "130.0">>),
      Entry("A1", <<10000>>, "230120", "0120", 0 - 2000, "Shop", "CP1", "ACME",
            <<"A1", "230131", "150.0">>),
      Entry("A1", <<10000>>, "230220", "0220", 5000, "Rent", "CP1", "ACME",
            <<"A1", "230228", "170.0">>),
      Entry("A2", <<>>, "230115", "0115", 5000, "Rent", "CP1", "ACME",
            <<"A2", "230131", "80.0">>),
      Entry("A2", <<>>, "230110", "0110", 0 - 2000, "Shop", "CP2", "ACME",
            <<>>) }

\* get_iso_date and float over the texts of Entries, evaluated once.
KnownDates ==
    {e.Date : e \in Entries}
    \cup {e.ClosingBalance[2] : e \in {x \in Entries : x.ClosingBalance # <<>>}}
    \cup {c \o e.Bookingdate : c \in {"19", "20"}, e \in Entries}
IsoTable == [d \in KnownDates |-> get_iso_date(d)]
IsoDate(d) == IF d \in KnownDates THEN IsoTable[d] ELSE get_iso_date(d)

KnownAmounts ==
    {e.ClosingBalance[3] : e \in {x \in Entries : x.ClosingBalance # <<>>}}
FloatTable == [a \in KnownAmounts |-> float(a)]
Float(a) == IF a \in KnownAmounts THEN FloatTable[a] ELSE float(a)

Files == UNION {[1..n -> Entries] : n \in 0..MaxTxn}

Todays == {20230215, 20230310}

Responses == {NoneStr, "Giro"}

RandomNames == {"qWeRtYuI", "aSdFgHjK"}

TxnFaults == {"none", "get_account_id", "add_account",
              "get_transaction_typ_id", "add_transaction_typ",
              "get_counterparty_id", "add_counterparty", "add_transaction"}
HistFaults == {"none", "get_account_id", "add_account_history"}
UpdFaults == {"none", "get_last_balance", "update_account"}

\* A sqlite3.Error can strike a repository call of the last import of a run,
\* and MaxFaults times at most: imports that follow a failed call are left
\* out, imports that follow an error of the code's own making are not.
FaultAllowed == imports = MaxImports /\ faults < MaxFaults

\* No repository call observed: each field is <<>> or holds one record.
NoCall == [fault |-> "none", add_account_mt940 |-> <<>>,
           add_transaction |-> <<>>, add_account_history |-> <<>>,
           update_account |-> <<>>, acc |-> <<>>, txn |-> <<>>, hist |-> <<>>]

\* The tables as create_database leaves them, no import started.
NoImport ==
    /\ tbl_Account = <<>>
    /\ tbl_Transaction = <<>>
    /\ tbl_AccountHistory = <<>>
    /\ tbl_Counterparty = <<>>
    /\ tbl_TransactionTyp = <<>>
    /\ pc = "idle"
    /\ data = <<>>
    /\ idx = 0
    /\ closing_balance = <<>>
    /\ latest = <<>>
    /\ counters = [inserted |-> 0, skipped |-> 0, added |-> 0, existing |-> 0]
    /\ raised = ""
    /\ today \in Todays
    /\ imports = 0
    /\ prompts = <<>>
    /\ faults = 0
    /\ before = [repeat |-> FALSE, acc |-> <<>>, txn |-> <<>>, hist |-> <<>>]
    /\ last_call = NoCall
    /\ accepted = {}

Init ==
    /\ NoImport
    /\ NoRead

----------------------------------------------------------------------------
(* insert_all_data_to_db(data, window), called by import_mt940_file.        *)

StartImport(f, t) ==
    /\ pc \in {"idle", "done", "raised"}
    /\ imports < MaxImports
    /\ t >= today
    /\ imports' = imports + 1
    /\ today' = t
    /\ data' = f
    /\ idx' = 1
    /\ closing_balance' = <<>>
    /\ latest' = <<>>
    /\ counters' = [inserted |-> 0, skipped |-> 0, added |-> 0, existing |-> 0]
    /\ raised' = ""
    /\ prompts' = <<>>
    /\ pc' = IF Len(f) = 0 THEN "done" ELSE "insert_transactions"
    /\ before' = [repeat |-> pc = "done" /\ f = data, acc |-> tbl_Account,
                  txn |-> tbl_Transaction, hist |-> tbl_AccountHistory]
    /\ last_call' = NoCall
    /\ UNCHANGED readVars
    /\ UNCHANGED <<dbVars, faults, accepted>>

\* insert_transactions, lines 449-466: the account of the entry, created
\* through add_account_mt940 when get_account_id raises NoAccountFoundError.
\* err names the exception that leaves the loop body ("" for none).
resolve_account(tbl, entry, fault, response, random_name, t) ==
    LET id0 == get_account_id(tbl, entry.Account)
        made == add_account_mt940(tbl, entry.Account, response, random_name,
                                  entry.OpeningBalance, t)
    IN IF fault = "get_account_id"
       THEN [err |-> "account_utils.Error", tbl |-> tbl, id |-> 0,
             prompted |-> FALSE]
       ELSE IF id0 # 0
       THEN [err |-> "", tbl |-> tbl, id |-> id0, prompted |-> FALSE]
       ELSE IF fault = "add_account" \/ ~made.ok
       THEN [err |-> "account_utils.Error", tbl |-> tbl, id |-> 0,
             prompted |-> TRUE]
       ELSE [err |-> "", tbl |-> made.tbl,
             id |-> get_account_id(made.tbl, entry.Account),
             prompted |-> TRUE]

\* insert_transactions, lines 471-488.
resolve_transaction_typ(tbl, entry, fault) ==
    LET name == entry.TransactionTypeName
        number == entry.TransactionTypeNumber
        id0 == get_transaction_typ_id(tbl, name, number)
        made == add_transaction_typ(tbl, name, number)
    IN IF fault # "get_transaction_typ_id" /\ id0 # 0
       THEN [err |-> "", tbl |-> tbl, id |-> id0]
       ELSE IF fault = "add_transaction_typ" \/ ~made.ok
       THEN [err |-> "transaction_typ_utils.Error", tbl |-> tbl, id |-> 0]
       ELSE [err |-> "", tbl |-> made.tbl,
             id |-> get_transaction_typ_id(made.tbl, name, number)]

\* insert_transactions, lines 491-509: looked up by number alone, created
\* with name and number, looked up again by both.
resolve_counterparty(tbl, entry, fault) ==
    LET name == entry.CounterpartyName
        number == entry.CounterpartyAccount
        id0 == get_counterparty_id(tbl, name, number, <<FALSE, TRUE>>)
        made == add_counterparty(tbl, name, number)
    IN IF fault # "get_counterparty_id" /\ id0 # 0
       THEN [err |-> "", tbl |-> tbl, id |-> id0]
       ELSE IF fault = "add_counterparty" \/ ~made.ok
       THEN [err |-> "counterparty_utils.Error", tbl |-> tbl, id |-> 0]
       ELSE [err |-> "", tbl |-> made.tbl,
             id |-> get_counterparty_id(made.tbl, name, number,
                                        <<TRUE, TRUE>>)]

\* No random name is drawn.
NoName == ""

\* The name the random generator returns: one that no account carries yet
\* (eight letters out of 52: a name already in use is not drawn).  Which of
\* the unused names is drawn makes no difference to any later step, so one
\* of them stands for all.
FreshNames ==
    LET unused == {n \in RandomNames :
                     \A i \in RowIds(tbl_Account) : tbl_Account[i].name # n}
    IN IF unused = {} THEN {NoName} ELSE {CHOOSE n \in unused : TRUE, NoName}

\* What follows the last iteration of a loop of insert_all_data_to_db.
AfterTransactions(cb) ==
    IF Len(cb) = 0 THEN "done" ELSE "insert_account_history_entries"

\* One iteration of the loop of insert_transactions (lines 446-529).
InsertTransaction(fault, response, random_name) ==
    /\ pc = "insert_transactions"
    /\ LET entry == data[idx]
           acc == resolve_account(tbl_Account, entry, fault, response,
                                  random_name, today)
           rti_date == IsoDate(entry.Date)
           rti_bookingdate ==
               IF rti_date = ValueError THEN ValueError
               ELSE IsoDate(IsoPrefix2(rti_date) \o entry.Bookingdate)
           date_err ==
               IF rti_date = ValueError THEN "ValueError"
               ELSE IF entry.Bookingdate = NoneStr THEN "TypeError"
               ELSE IF rti_bookingdate = ValueError THEN "ValueError"
               ELSE ""
           tt == resolve_transaction_typ(tbl_TransactionTyp, entry, fault)
           cp == resolve_counterparty(tbl_Counterparty, entry, fault)
           cb == IF entry.ClosingBalance # <<>>
                 THEN Append(closing_balance, entry.ClosingBalance)
                 ELSE closing_balance
           rti_data == [account_id |-> acc.id, date |-> rti_date,
                        bookingdate |-> rti_bookingdate, tt_id |-> tt.id,
                        amount |-> entry.Amount, purpose |-> entry.Purpose,
                        counterparty_id |-> cp.id, category_id |-> 1,
                        user_comments |-> NoneStr,
                        displayed_name |-> NoneStr]
           ins == IF fault = "add_transaction"
                  THEN [res |-> "error", tbl |-> tbl_Transaction]
                  ELSE add_transaction(tbl_Transaction, rti_data)
           reached_tt == acc.err = "" /\ date_err = ""
           reached_cp == reached_tt /\ tt.err = ""
           reached_ins == reached_cp /\ cp.err = ""
           err == IF acc.err # "" THEN acc.err
                  ELSE IF date_err # "" THEN date_err
                  ELSE IF tt.err # "" THEN tt.err
                  ELSE IF cp.err # "" THEN cp.err
                  ELSE IF ins.res = "error" THEN "DatabaseMT940Error"
                  ELSE ""
           \* the failing call is one this iteration makes
           struck ==
               \/ fault = "get_account_id"
               \/ fault = "add_account" /\ acc.prompted
               \/ fault = "get_transaction_typ_id" /\ reached_tt
               \/ fault = "add_transaction_typ" /\ reached_tt
                     /\ get_transaction_typ_id(tbl_TransactionTyp,
                            entry.TransactionTypeName,
                            entry.TransactionTypeNumber) = 0
               \/ fault = "get_counterparty_id" /\ reached_cp
               \/ fault = "add_counterparty" /\ reached_cp
                     /\ get_counterparty_id(tbl_Counterparty,
                            entry.CounterpartyName, entry.CounterpartyAccount,
                            <<FALSE, TRUE>>) = 0
               \/ fault = "add_transaction" /\ reached_ins
       IN /\ fault = "none" \/ (FaultAllowed /\ struck)
          \* the dialog and the random name are read only for a new account
          /\ acc.prompted \/ (response = NoneStr /\ random_name = NoName)
          /\ (acc.prompted /\ response = NoneStr) <=> random_name # NoName
          /\ faults' = IF fault = "none" THEN faults ELSE faults + 1
          /\ tbl_Account' = acc.tbl
          /\ prompts' = IF acc.prompted THEN Append(prompts, entry.Account)
                        ELSE prompts
          /\ tbl_TransactionTyp' = IF reached_tt THEN tt.tbl
                                   ELSE tbl_TransactionTyp
          /\ tbl_Counterparty' = IF reached_cp THEN cp.tbl
                                 ELSE tbl_Counterparty
          /\ closing_balance' = IF reached_ins THEN cb ELSE closing_balance
          /\ tbl_Transaction' = IF reached_ins THEN ins.tbl
                                ELSE tbl_Transaction
          /\ counters' =
               IF reached_ins /\ ins.res = "ok"
               THEN [counters EXCEPT !.inserted = @ + 1]
               ELSE IF reached_ins /\ ins.res = "exists"
               THEN [counters EXCEPT !.skipped = @ + 1]
               ELSE counters
          /\ raised' = err
          /\ pc' = IF err # "" THEN "raised"
                   ELSE IF idx < Len(data) THEN "insert_transactions"
                   ELSE AfterTransactions(cb)
          /\ idx' = IF err = "" /\ idx < Len(data) THEN idx + 1 ELSE 1
          /\ last_call' =
               [NoCall EXCEPT
                  !.fault = fault,
                  !.acc = tbl_Account,
                  !.txn = tbl_Transaction,
                  !.add_account_mt940 =
                      IF acc.prompted
                      THEN <<[number |-> entry.Account, response |-> response,
                              opening |-> entry.OpeningBalance,
                              ok |-> acc.err = ""]>>
                      ELSE <<>>,
                  !.add_transaction =
                      IF reached_ins
                      THEN <<[res |-> ins.res, row |-> rti_data]>>
                      ELSE <<>>]
    /\ UNCHANGED readVars
    /\ UNCHANGED <<tbl_AccountHistory, data, latest, today, imports, before,
                   accepted>>

\* The dict "latest" is a list of items in insertion order.
LatestIndex(lat, account_number) ==
    LET Match(r) == r.account_number = account_number
    IN FirstRow({i \in RowIds(lat) : Match(lat[i])})

\* insert_account_history_entries, lines 388-391.
update_latest(lat, account_number, record_date, balance, rti_account_id) ==
    LET k == LatestIndex(lat, account_number)
        item == [account_number |-> account_number,
                 record_date |-> record_date, balance |-> balance,
                 rti_account_id |-> rti_account_id]
    IN IF k = 0 THEN Append(lat, item)
       ELSE IF str_gt(record_date, lat[k].record_date)
       THEN [lat EXCEPT ![k] = item]
       ELSE lat

\* One iteration of the loop of insert_account_history_entries
\* (lines 372-403).
InsertAccountHistoryEntry(fault) ==
    /\ pc = "insert_account_history_entries"
    /\ LET account_number == closing_balance[idx][1]
           record_date == closing_balance[idx][2]
           rti_account_id == get_account_id(tbl_Account, account_number)
           balance == Float(closing_balance[idx][3])
           iso == IsoDate(record_date)
           add == IF fault = "add_account_history"
                  THEN [res |-> "error", tbl |-> tbl_AccountHistory]
                  ELSE add_account_history(tbl_AccountHistory, rti_account_id,
                                           balance, iso, today)
           err == IF fault = "get_account_id" THEN "account_utils.Error"
                  ELSE IF rti_account_id = 0 THEN "DatabaseMT940Error"
                  ELSE IF balance = FloatError THEN "ValueError"
                  ELSE IF iso = ValueError THEN "ValueError"
                  ELSE IF add.res = "error" THEN "DatabaseMT940Error"
                  ELSE ""
           reached_latest == fault # "get_account_id" /\ rti_account_id # 0
                             /\ balance # FloatError
           reached_add == reached_latest /\ iso # ValueError
           struck == fault = "get_account_id"
                     \/ (fault = "add_account_history" /\ reached_add)
       IN /\ fault = "none" \/ (FaultAllowed /\ struck)
          /\ faults' = IF fault = "none" THEN faults ELSE faults + 1
          /\ latest' = IF reached_latest
                       THEN update_latest(latest, account_number, record_date,
                                          balance, rti_account_id)
                       ELSE latest
          /\ tbl_AccountHistory' = IF reached_add THEN add.tbl
                                   ELSE tbl_AccountHistory
          /\ counters' =
               IF reached_add /\ add.res = "ok"
               THEN [counters EXCEPT !.added = @ + 1]
               ELSE IF reached_add /\ add.res = "exists"
               THEN [counters EXCEPT !.existing = @ + 1]
               ELSE counters
          /\ raised' = err
          /\ pc' = IF err # "" THEN "raised"
                   ELSE IF idx < Len(closing_balance)
                   THEN "insert_account_history_entries"
                   ELSE "update_account_balances"
          /\ idx' = IF err = "" /\ idx < Len(closing_balance) THEN idx + 1
                    ELSE 1
          /\ last_call' =
               [NoCall EXCEPT
                  !.fault = fault,
                  !.hist = tbl_AccountHistory,
                  !.add_account_history =
                      IF reached_add
                      THEN <<[res |-> add.res, account_id |-> rti_account_id,
                              balance |-> balance, record_date |-> iso]>>
                      ELSE <<>>]
    /\ UNCHANGED readVars
    /\ UNCHANGED <<tbl_Account, tbl_Transaction, tbl_Counterparty,
                   tbl_TransactionTyp, data, closing_balance, today, imports,
                   prompts, before, accepted>>

\* One iteration of the loop of update_account_balances (lines 298-343).
UpdateAccountBalance(fault) ==
    /\ pc = "update_account_balances"
    /\ LET item == latest[idx]
           found == get_last_balance(tbl_AccountHistory, item.rti_account_id,
                                     today)
           last_balance == IF found = <<>> THEN 0 ELSE found[1]
           difference == item.balance - last_balance
           iso == IsoDate(item.record_date)
           upd == update_account(tbl_Account, item.rti_account_id,
                                 item.balance, difference, iso, today)
           err == IF fault = "get_last_balance"
                  THEN "account_history_utils.Error"
                  ELSE IF iso = ValueError THEN "ValueError"
                  ELSE IF fault = "update_account" \/ upd.res = "error"
                  THEN "account_utils.Error"
                  ELSE ""
       IN /\ fault = "none" \/ (FaultAllowed /\ iso # ValueError)
          /\ faults' = IF fault = "none" THEN faults ELSE faults + 1
          /\ tbl_Account' = IF err = "" THEN upd.tbl ELSE tbl_Account
          /\ last_call' =
               [NoCall EXCEPT
                  !.fault = fault,
                  !.acc = tbl_Account,
                  !.hist = tbl_AccountHistory,
                  !.update_account =
                      IF err = ""
                      THEN <<[res |-> upd.res, account_id |-> item.rti_account_id,
                              balance |-> item.balance, record_date |-> iso]>>
                      ELSE <<>>]
          /\ accepted' =
               IF err = "" /\ upd.res \in {"updated", "nochange"}
               THEN accepted \cup {<<item.rti_account_id, iso>>}
               ELSE accepted
          /\ raised' = err
          /\ pc' = IF err # "" THEN "raised"
                   ELSE IF idx < Len(latest) THEN "update_account_balances"
                   ELSE "done"
          /\ idx' = IF err = "" /\ idx < Len(latest) THEN idx + 1 ELSE 1
    /\ UNCHANGED readVars
    /\ UNCHANGED <<tbl_Transaction, tbl_AccountHistory, tbl_Counterparty,
                   tbl_TransactionTyp, data, closing_balance, latest, counters,
                   today, imports, prompts, before>>

Next ==
    \/ \E f \in Files, t \in Todays : StartImport(f, t)
    \/ \E fault \in TxnFaults, response \in Responses, r \in FreshNames :
          InsertTransaction(fault, response, r)
    \/ \E fault \in HistFaults : InsertAccountHistoryEntry(fault)
    \/ \E fault \in UpdFaults : UpdateAccountBalance(fault)

Spec == Init /\ [][Next]_vars

----------------------------------------------------------------------------
(* The same import over statements dated on both sides of a change of       *)
(* century (1999/2000) and of the pivot year of get_iso_date (2069/1970).   *)

CenturyEntries ==
    { Entry("A1", <<10000>>, "991231", "1231", 5000, "Rent", "CP1", "ACME",
            <<"A1", "991231", "150.0">>),
      Entry("A1", <<10000>>, "000101", "0101", 0 - 2000, "Shop", "CP1", "ACME",
            <<"A1", "000101", "130.0">>),
      Entry("A1", <<10000>>, "691231", "1231", 5000, "Rent", "CP1", "ACME",
            <<"A1", "691231", "150.0">>),
      Entry("A1", <<10000>>, "700101", "0101", 0 - 2000, "Shop", "CP1", "ACME",
            <<"A1", "700101", "130.0">>) }

CenturyFiles == [1..MaxTxn -> CenturyEntries]

NextCentury ==
    \/ \E f \in CenturyFiles, t \in Todays : StartImport(f, t)
    \/ \E fault \in TxnFaults, response \in Responses, r \in FreshNames :
          InsertTransaction(fault, response, r)
    \/ \E fault \in HistFaults : InsertAccountHistoryEntry(fault)
    \/ \E fault \in UpdFaults : UpdateAccountBalance(fault)

SpecCentury == Init /\ [][NextCentury]_vars

----------------------------------------------------------------------------
(* import_mt940_file up to parse_block: the text of the chosen file is split *)
(* into blocks and the blocks are parsed.                                    *)

\* The text of a file with these lines.
Text(ls) == join("\n", ls)

Line20 == ":20:REF1"
Line60F == ":60F:C230101EUR100,00"
Line61Rent == ":61:2301150115CR50,00NTRFNONREF"
Line86Rent == ":86:166?00GUTSCHRIFT?20SVWZ+Rent?31CP1?32ACME?34000"
Line61Shop == ":61:2301200120DR20,00NTRFNONREF"
Line86Shop == ":86:105?00LASTSCHRIFT?20EREF+Shop?31CP2?32Market?34000"
Line62F == ":62F:C230131EUR130,00"

\* The statement group of the end-to-end example.
EndToEndText ==
    Text(<<Line20, ":25:DE00ACCOUNT", Line60F, Line61Rent, Line86Rent,
           Line61Shop, Line86Shop, Line62F, "">>)

\* Blocks that lack what parse_block looks for.
Line61NoEnd == ":61:2301150115CR50,05"
Line86NoCounterparty == ":86:166?00GUTSCHRIFT?20SVWZ+Rent"
Line86NoSubfields == ":86:166GUTSCHRIFT"

MalformedTexts ==
    { \* a :61: block with no S, N or F after the amount
      Text(<<Line20, ":25:DE00ACCOUNT", Line60F, Line61NoEnd, Line86Rent,
             Line62F>>),
      \* a :61: block with no digit after the marker
      Text(<<Line20, ":25:DE00ACCOUNT", Line60F, ":61:2301150115CRNTRFNONREF",
             Line86Rent, Line62F>>),
      \* an :86: block with neither ?31 nor ?32
      Text(<<Line20, ":25:DE00ACCOUNT", Line60F, Line61Rent,
             Line86NoCounterparty, Line62F>>),
      \* an :86: block with no "?" after the type name
      Text(<<Line20, ":25:DE00ACCOUNT", Line60F, Line61Rent, Line86NoSubfields,
             Line62F>>),
      \* a :61: block that ends after the date
      Text(<<Line20, ":61:230115", Line86Rent, Line62F>>) }

\* Purposes: the example of the prefix extraction, and a purpose with a
\* second prefix after the leading one.
Line86Invoice == ":86:166?00GUTSCHRIFT?20SVWZ+Invoice 123?31CP1?32ACME?34000"
Line86TwoPrefixes == ":86:166?00GUTSCHRIFT?20SVWZ+Invoice?21EREF+123?31CP1?32ACME?34000"

PurposeTexts ==
    { Text(<<Line20, ":25:DE00ACCOUNT", Line60F, Line61Rent, Line86Invoice,
             Line62F>>),
      Text(<<Line20, ":25:DE00ACCOUNT", Line60F, Line61Rent, Line86TwoPrefixes,
             Line62F>>) }

\* A counterparty name that overflows ?32 into ?33, with ?33 followed by
\* another subfield and with ?33 the last subfield.
Line86Overflow == ":86:166?00GUTSCHRIFT?20SVWZ+Rent?31CP1?32ACME Impo?33rt GmbH?34000"
Line86OverflowLast == ":86:166?00GUTSCHRIFT?20SVWZ+Rent?31CP1?32ACME Impo?33rt GmbH"

OverflowTexts ==
    { Text(<<Line20, ":25:DE00ACCOUNT", Line60F, Line61Rent, Line86Overflow,
             Line62F>>),
      Text(<<Line20, ":25:DE00ACCOUNT", Line60F, Line61Rent, Line86OverflowLast,
             Line62F>>) }

\* Two statement groups, the second with two :61:/:86: pairs.
GroupsText ==
    Text(<<Line20, ":25:DE00ACCOUNT", Line60F, Line61Rent, Line86Rent, Line62F,
           ":20:REF2", ":25:DE00SAVINGS", ":60F:C230201EUR130,00", Line61Shop,
           Line86Shop, ":61:2302200220CR50,00NTRFNONREF", Line86Rent,
           ":62F:C230228EUR160,00">>)

\* Blank lines, and a payload wrapped over two lines.
WrappedText ==
    Text(<<"", Line20, ":25:DE00ACCOUNT", "  ", Line60F, Line61Rent,
           ":86:166?00GUTSCHRIFT?20SVWZ+Re", " ", "nt?31CP1?32ACME?34000",
           Line62F>>)

\* Two statement groups, the second without a :61:/:86: pair.
QuietGroupText ==
    Text(<<Line20, ":25:DE00ACCOUNT", Line60F, Line61Rent, Line86Rent, Line62F,
           ":20:REF2", ":25:DE00SAVINGS", ":60F:C230201EUR130,00",
           ":62F:C230228EUR130,00">>)

\* A closing balance whose last digit is not 0.
ClosingCentsText ==
    Text(<<Line20, ":25:DE00ACCOUNT", Line60F, Line61Rent, Line86Rent,
           ":62F:C230131EUR150,05">>)

\* A :20: block read while the transaction of a :61:/:86: pair is pending.
PendingAt20Text ==
    Text(<<Line20, ":25:DE00ACCOUNT", Line60F, Line61Rent, Line86Rent,
           ":20:REF2", Line61Shop, Line86Shop, Line62F>>)

\* A purpose without prefix after a purpose with the prefix SVWZ+, in one
\* statement group.
NoPrefixText ==
    Text(<<Line20, ":25:DE00ACCOUNT", Line60F, Line61Rent, Line86Rent,
           Line61Shop, ":86:105?00LASTSCHRIFT?20Shop?31CP2?32Market?34000",
           Line62F>>)

Texts ==
    { EndToEndText,
      \* the account as <8-digit bank code>/<number>
      Text(<<Line20, ":25:12345678/0123456789", Line60F, Line61Rent, Line86Rent,
             Line61Shop, Line86Shop, Line62F, "">>),
      WrappedText,
      \* two statement groups
      Text(<<Line20, ":25:DE00ACCOUNT", Line60F, Line61Rent, Line86Rent, Line62F,
             ":20:REF2", ":25:DE00SAVINGS", ":60F:D230101EUR10,50", Line61Shop,
             ":86:105?00LASTSCHRIFT?20Shop?31CP2?32Market?33 Hall",
             ":62F:D230131EUR30,50">>),
      \* a second group without :20: and :25:
      Text(<<Line20, ":25:DE00ACCOUNT", Line60F, Line61Rent, Line86Rent, Line62F,
             Line61Shop, Line86Shop, ":62F:C230228EUR110,00">>),
      \* no :61:/:86: pair
      Text(<<Line20, ":25:DE00ACCOUNT", Line60F, Line62F>>),
      \* a first line without tag
      Text(<<"STATEMENT", Line20, ":25:DE00ACCOUNT", Line61Rent, Line86Rent,
             Line62F>>),
      \* type code with an S after the N
      Text(<<Line20, ":61:2301150115CR50,00NMSCNONREF", Line86Rent, Line62F>>),
      \* a :60F: block without amount
      Text(<<Line20, ":60F:C230101EUR", Line61Rent, Line86Rent, Line62F>>),
      "",
      " \n\n" }
    \cup MalformedTexts
    \cup PurposeTexts
    \cup OverflowTexts
    \cup {GroupsText, QuietGroupText, ClosingCentsText, PendingAt20Text,
          NoPrefixText}

InitRead ==
    /\ NoImport
    /\ file_content \in Texts
    /\ at = "split_toblocks_mt940"
    /\ lines = split(file_content, "\n")
    /\ pos = 1
    /\ current_block = <<>>
    /\ blocks = <<>>
    /\ temp = NoTemp
    /\ last_block_86 = FALSE
    /\ parsed_data = <<>>
    /\ parse_raised = ""

\* One iteration of the loop of split_toblocks_mt940.
SplitLine ==
    /\ at = "split_toblocks_mt940"
    /\ pos <= Len(lines)
    /\ LET r == split_line(lines[pos], current_block, blocks)
       IN /\ current_block' = r.current_block
          /\ blocks' = r.blocks
    /\ pos' = pos + 1
    /\ UNCHANGED <<file_content, at, lines, temp, last_block_86, parsed_data,
                   parse_raised>>
    /\ UNCHANGED <<dbVars, runVars, obsVars>>

\* split_toblocks_mt940, lines 52-55: the last block, the return; parse_block
\* starts on the blocks (and returns at once when there is none).
SplitReturn ==
    /\ at = "split_toblocks_mt940"
    /\ pos > Len(lines)
    /\ blocks' = IF current_block # <<>>
                 THEN Append(blocks, join("", current_block))
                 ELSE blocks
    /\ at' = IF Len(blocks') = 0 THEN "returned" ELSE "parse_block"
    /\ pos' = 1
    /\ UNCHANGED <<file_content, lines, current_block, temp, last_block_86,
                   parsed_data, parse_raised>>
    /\ UNCHANGED <<dbVars, runVars, obsVars>>

\* One iteration of the loop of parse_block; after the last block the
\* function returns parsed_data.
ParseBlock ==
    /\ at = "parse_block"
    /\ pos <= Len(blocks)
    /\ LET r == parse_one(blocks[pos], temp, last_block_86, parsed_data)
       IN /\ temp' = r.temp
          /\ last_block_86' = r.last_block_86
          /\ parsed_data' = r.parsed_data
          /\ parse_raised' = r.err
          /\ at' = IF r.err # "" THEN "raised"
                   ELSE IF pos < Len(blocks) THEN "parse_block"
                   ELSE "returned"
          /\ pos' = IF r.err = "" /\ pos < Len(blocks) THEN pos + 1 ELSE pos
    /\ UNCHANGED <<file_content, lines, current_block, blocks>>
    /\ UNCHANGED <<dbVars, runVars, obsVars>>

NextRead ==
    \/ SplitLine
    \/ SplitReturn
    \/ ParseBlock

SpecRead == InitRead /\ [][NextRead]_vars

----------------------------------------------------------------------------
(* Properties of the reconciliation engine (checked under Spec)             *)

ClosingCount(d) ==
    Cardinality({i \in 1..Len(d) : d[i].ClosingBalance # <<>>})

\* C1: importing again the file of an import that completed leaves the
\* Transaction rows and the AccountHistory rows as they were; the second run
\* inserts no transaction and no snapshot, counts every parsed transaction as
\* skipped and every closing balance as already existing.
C1_ImportIdempotent ==
    (pc = "done" /\ before.repeat) =>
        /\ tbl_Transaction = before.txn
        /\ tbl_AccountHistory = before.hist
        /\ counters.inserted = 0
        /\ counters.added = 0
        /\ counters.skipped = Len(data)
        /\ counters.existing = ClosingCount(data)

C1_Witness ==
    /\ pc = "done" /\ before.repeat
    /\ Len(data) = 2 /\ ClosingCount(data) >= 1
    /\ Len(tbl_Transaction) >= 2 /\ Len(tbl_AccountHistory) >= 1

SameNaturalKey(r, q) ==
    /\ r.account_id = q.account_id
    /\ r.date = q.date
    /\ r.bookingdate = q.bookingdate
    /\ r.tt_id = q.tt_id
    /\ r.amount = q.amount
    /\ r.purpose = q.purpose
    /\ r.counterparty_id = q.counterparty_id
    /\ r.category_id = q.category_id

\* C2: no two Transaction rows agree on (account, date, bookingdate, type,
\* amount, purpose, counterparty, category); add_transaction on data matching
\* a stored row on these eight fields, whatever its comments and displayed
\* name, raises AlreadyExistsError and inserts nothing, and the import counts
\* it as skipped and goes on.
C2_NoDuplicateTransactions ==
    /\ \A i, j \in RowIds(tbl_Transaction) :
          i # j => ~SameNaturalKey(tbl_Transaction[i], tbl_Transaction[j])
    /\ \A i \in RowIds(tbl_Transaction), c \in {NoneStr, "note"} :
          add_transaction(tbl_Transaction,
                          [tbl_Transaction[i] EXCEPT !.user_comments = c,
                                                     !.displayed_name = c])
            = [res |-> "exists", tbl |-> tbl_Transaction]
    /\ \A c \in {last_call.add_transaction[k] :
                    k \in 1..Len(last_call.add_transaction)} :
          /\ ((\E i \in RowIds(last_call.txn) :
                 SameNaturalKey(last_call.txn[i], c.row))
              /\ last_call.fault # "add_transaction") => c.res = "exists"
          /\ c.res = "exists" =>
                /\ tbl_Transaction = last_call.txn
                /\ counters.skipped >= 1
                /\ pc # "raised" /\ raised = ""

C2_Witness ==
    /\ last_call.add_transaction # <<>>
    /\ last_call.add_transaction[1].res = "exists"
    /\ pc = "insert_transactions" /\ idx = 2
    /\ counters.skipped = 1

\* C3: at most one AccountHistory row per (account, record date); an insert
\* for a pair that has a row raises ExistingAccountHistoryError, leaves the
\* stored rows as they are, and the import counts it and goes on.
C3_OneSnapshotPerDate ==
    /\ \A i, j \in RowIds(tbl_AccountHistory) :
          (/\ i # j
           /\ tbl_AccountHistory[i].account_id = tbl_AccountHistory[j].account_id)
          => tbl_AccountHistory[i].record_date # tbl_AccountHistory[j].record_date
    /\ \A c \in {last_call.add_account_history[k] :
                    k \in 1..Len(last_call.add_account_history)} :
          /\ ((\E i \in RowIds(last_call.hist) :
                 /\ last_call.hist[i].account_id = c.account_id
                 /\ last_call.hist[i].record_date = c.record_date)
              /\ last_call.fault # "add_account_history") => c.res = "exists"
          /\ c.res = "exists" =>
                /\ tbl_AccountHistory = last_call.hist
                /\ counters.existing >= 1
                /\ pc # "raised" /\ raised = ""

C3_Witness ==
    /\ last_call.add_account_history # <<>>
    /\ last_call.add_account_history[1].res = "exists"
    /\ \E i \in RowIds(tbl_AccountHistory) :
          /\ tbl_AccountHistory[i].account_id
               = last_call.add_account_history[1].account_id
          /\ tbl_AccountHistory[i].record_date
               = last_call.add_account_history[1].record_date
          /\ tbl_AccountHistory[i].balance
               # last_call.add_account_history[1].balance
    /\ pc = "update_account_balances"

\* The balance of the account's most recent snapshot dated before d, 0 when
\* it has none.
PriorBalance(hist, account_id, d) ==
    LET rows == {i \in RowIds(hist) : /\ hist[i].account_id = account_id
                                      /\ hist[i].record_date < d}
    IN IF rows = {} THEN 0
       ELSE hist[CHOOSE i \in rows :
                    \A j \in rows : hist[j].record_date <= hist[i].record_date
                 ].balance

\* C4: when update_account_balances applies closing balance b dated d and
\* the update is accepted, the stored difference is b minus the balance of
\* the account's most recent snapshot dated before d (b - 0.0 without one).
C4_DifferenceFromPriorSnapshot ==
    \A u \in {last_call.update_account[k] :
                 k \in 1..Len(last_call.update_account)} :
       u.res = "updated" =>
          tbl_Account[u.account_id].difference
            = u.balance - PriorBalance(tbl_AccountHistory, u.account_id,
                                       u.record_date)

AcceptedDates(account_id) ==
    {p[2] : p \in {q \in accepted : q[1] = account_id}}

MaxDate(S) == CHOOSE d \in S : \A e \in S : e <= d

C5_RecordDateIsMaxAccepted ==
    \A id \in RowIds(tbl_Account) :
       AcceptedDates(id) # {} =>
          tbl_Account[id].record_date = MaxDate(AcceptedDates(id))

C5_RecordDateNeverDecreases ==
    \A id \in RowIds(tbl_Account) :
       tbl_Account'[id].record_date >= tbl_Account[id].record_date

\* C5: an Account's stored record date equals the greatest record date among
\* the non-stale updates applied to it, and never decreases.
C5_RecordDate ==
    /\ []C5_RecordDateIsMaxAccepted
    /\ [][C5_RecordDateNeverDecreases]_vars

C5_Witness ==
    \E id \in RowIds(tbl_Account) :
       /\ Cardinality(AcceptedDates(id)) >= 2
       /\ tbl_Account[id].record_date = 20230228

\* C6: update_account with a record date strictly older than the stored one
\* raises RecordTooOldError and leaves the Account row as it is, and
\* update_account_balances goes on with the remaining accounts; a record date
\* equal to or newer than the stored one is never rejected as stale.
C6_StalenessGuard ==
    \A u \in {last_call.update_account[k] :
                 k \in 1..Len(last_call.update_account)} :
       LET stored == last_call.acc[u.account_id]
       IN /\ u.record_date < stored.record_date => u.res = "stale"
          /\ u.record_date >= stored.record_date => u.res # "stale"
          /\ u.res = "stale" =>
                /\ tbl_Account = last_call.acc
                /\ raised = ""
                /\ pc = IF idx = 1 THEN "done" ELSE "update_account_balances"

C6_Witness ==
    /\ last_call.update_account # <<>>
    /\ last_call.update_account[1].res = "stale"
    /\ pc = "update_account_balances"
    /\ idx = 2

\* One statement group: every entry names the same account and the last one
\* alone carries the closing balance, of that account.
IsStatementGroup(d) ==
    /\ Len(d) >= 1
    /\ \A i \in 1..Len(d) : d[i].Account = d[1].Account
    /\ \A i \in 1..(Len(d) - 1) : d[i].ClosingBalance = <<>>
    /\ d[Len(d)].ClosingBalance # <<>>
    /\ d[Len(d)].ClosingBalance[1] = d[1].Account

\* C8: a completed import of one statement group whose account number was
\* not stored leaves exactly one Account row with that number and exactly one
\* AccountHistory row of that account, dated with the closing-balance date
\* and holding the closing balance.
C8_OneAccountOneSnapshot ==
    (/\ pc = "done"
     /\ IsStatementGroup(data)
     /\ get_account_id(before.acc, data[1].Account) = 0)
    => LET closing == data[Len(data)].ClosingBalance
           ids == {i \in RowIds(tbl_Account) :
                      tbl_Account[i].number = data[1].Account}
       IN /\ Cardinality(ids) = 1
          /\ Len(tbl_Account) = Len(before.acc) + 1
          /\ \A id \in ids :
                LET snaps == {i \in RowIds(tbl_AccountHistory) :
                                 tbl_AccountHistory[i].account_id = id}
                IN /\ Cardinality(snaps) = 1
                   /\ \A i \in snaps :
                         /\ tbl_AccountHistory[i].record_date
                              = get_iso_date(closing[2])
                         /\ tbl_AccountHistory[i].balance = float(closing[3])

C8_Witness ==
    /\ pc = "done"
    /\ IsStatementGroup(data)
    /\ Len(data) = 2
    /\ get_account_id(before.acc, data[1].Account) = 0
    /\ Len(before.acc) = 1
    /\ tbl_AccountHistory[Len(tbl_AccountHistory)].balance = 13000

NoDuplicates(seq) ==
    \A i, j \in 1..Len(seq) : i # j => seq[i] # seq[j]

BuiltinErrors == {"ValueError", "TypeError"}

\* C10: every repository failure that ends insert_all_data_to_db reaches the
\* caller as DatabaseMT940Error.
C10_TypedError ==
    (pc = "raised" /\ raised \notin BuiltinErrors) =>
        raised = "DatabaseMT940Error"

\* s is the beginning of t: no row of s was removed or changed.
IsPrefix(s, t) == Len(s) <= Len(t) /\ SubSeq(t, 1, Len(s)) = s

\* C11: no rollback.  No iteration of insert_transactions removes or changes
\* a row of tbl_Account, tbl_TransactionTyp, tbl_Counterparty or
\* tbl_Transaction; when an iteration ends the import, the transactions
\* counted as inserted before it are all in tbl_Transaction, an account the
\* iteration created is still there, and the import has written no
\* tbl_AccountHistory row and changed no account that existed before it.
C11_NoRollback ==
    [][pc = "insert_transactions" =>
          /\ IsPrefix(tbl_Account, tbl_Account')
          /\ IsPrefix(tbl_TransactionTyp, tbl_TransactionTyp')
          /\ IsPrefix(tbl_Counterparty, tbl_Counterparty')
          /\ IsPrefix(tbl_Transaction, tbl_Transaction')
          /\ pc' = "raised" =>
                /\ Len(tbl_Transaction') = Len(before.txn) + counters'.inserted
                /\ IsPrefix(before.txn, tbl_Transaction')
                /\ \A c \in {last_call'.add_account_mt940} :
                      (c # <<>> /\ c[1].ok) =>
                          get_account_id(tbl_Account', c[1].number) # 0
                /\ tbl_AccountHistory' = before.hist
                /\ IsPrefix(before.acc, tbl_Account')]_vars

\* An import ended at its second transaction, after the first was inserted.
C11_Witness ==
    /\ pc = "raised"
    /\ raised = "counterparty_utils.Error"
    /\ counters.inserted = 1
    /\ Len(tbl_Transaction) = Len(before.txn) + 1

\* C23: the booking date of every stored transaction has the year of the
\* transaction's date and the month and day of the record's Bookingdate.
C23_BookingdateYear ==
    \A r \in {last_call.add_transaction} :
       (r # <<>> /\ r[1].res = "ok") =>
          /\ r[1].row.bookingdate \div 10000 = r[1].row.date \div 10000
          /\ \A i \in RowIds(tbl_Transaction) :
                tbl_Transaction[i].bookingdate \div 10000 =
                    tbl_Transaction[i].date \div 10000

\* The ISO dates of the closing balances that the import carries for the
\* account number.
ClosingDates(account_number) ==
    {IsoDate(closing_balance[i][2]) :
        i \in {j \in RowIds(closing_balance) :
                  closing_balance[j][1] = account_number}}

\* C25: when insert_account_history_entries has returned, the triple kept
\* for an account is the one with the latest date among the closing
\* balances the import carries for it.
C25_LatestIsNewest ==
    pc = "update_account_balances" =>
        \A k \in RowIds(latest) :
           \A d \in ClosingDates(latest[k].account_number) :
              d <= IsoDate(latest[k].record_date)

\* C26: the counterparty of a transaction is the row with its account
\* number.  An iteration of insert_transactions in which no database call
\* fails does not end in an error of the counterparty repository, and when
\* it reaches add_transaction exactly one row of tbl_Counterparty has the
\* entry's counterparty number, the row the transaction refers to.
C26_CounterpartyByNumber ==
    [][(pc = "insert_transactions" /\ last_call'.fault = "none") =>
          /\ raised' # "counterparty_utils.Error"
          /\ last_call'.add_transaction # <<>> =>
                {i \in RowIds(tbl_Counterparty') :
                    tbl_Counterparty'[i].number =
                        data[idx].CounterpartyAccount}
                = {last_call'.add_transaction[1].row.counterparty_id}]_vars

\* C29: after completed imports, an account whose record date an import set
\* has a row of tbl_AccountHistory for that date with the balance the
\* account holds.
C29_SnapshotMatchesAccount ==
    pc = "done" =>
        \A a \in accepted :
           (a[1] \in RowIds(tbl_Account)
            /\ tbl_Account[a[1]].record_date = a[2]) =>
               \E i \in RowIds(tbl_AccountHistory) :
                  /\ tbl_AccountHistory[i].account_id = a[1]
                  /\ tbl_AccountHistory[i].record_date = a[2]
                  /\ tbl_AccountHistory[i].balance = tbl_Account[a[1]].balance

\* insert_account_history_entries and update_account_balances for an import
\* whose records carry the one closing balance cb = (number, date, balance)
\* of an account that exists, on the tables db.acc and db.hist, at the
\* date t.
import_closing_balance(db, cb, t) ==
    LET rti_account_id == get_account_id(db.acc, cb[1])
        balance == Float(cb[3])
        added == add_account_history(db.hist, rti_account_id, balance,
                                     IsoDate(cb[2]), t)
        found == get_last_balance(added.tbl, rti_account_id, t)
        last_balance == IF found = <<>> THEN 0 ELSE found[1]
        upd == update_account(db.acc, rti_account_id, balance,
                              balance - last_balance, IsoDate(cb[2]), t)
    IN [acc |-> upd.tbl, hist |-> added.tbl]

\* The closing balances of two statements of the account A1, the older
\* and the newer.
OlderClosing == <<"A1", "230131", "130.0">>
NewerClosing == <<"A1", "230228", "170.0">>

\* The tables after the import of the statement with the closing balance
\* first, then of the statement with the closing balance second, into a
\* database that has the account alone, both at the date t.
ImportedInOrder(first, second, t) ==
    import_closing_balance(
        import_closing_balance(
            [acc |-> add_account_mt940(<<>>, "A1", "Giro", NoName, <<10000>>,
                                       t).tbl,
             hist |-> <<>>],
            first, t),
        second, t)

\* The older statement, then the newer statement were imported at one date
\* into a database that had neither.
OlderThenNewerImported ==
    /\ pc = "done"
    /\ imports = 2
    /\ faults = 0
    /\ before.hist = import_closing_balance(
                         [acc |-> before.acc, hist |-> <<>>], OlderClosing,
                         today).hist
    /\ Len(before.acc) = 1
    /\ before.acc[1].record_date = IsoDate(OlderClosing[2])
    /\ Len(data) = 1
    /\ data[1].ClosingBalance = NewerClosing

\* C30: the account ends with the same balance, record date and difference
\* whether the older statement is imported before the newer one or after
\* it, at any current date.
C30_OrderIndependence ==
    OlderThenNewerImported =>
        \A a \in {ImportedInOrder(NewerClosing, OlderClosing, today).acc[1]} :
           /\ tbl_Account[1].balance = a.balance
           /\ tbl_Account[1].record_date = a.record_date
           /\ tbl_Account[1].difference = a.difference

----------------------------------------------------------------------------
(* Properties of the tokenizer and the parser (checked under SpecRead)       *)

\* C7: the end-to-end statement group (:20:REF1, :25:DE00ACCOUNT,
\* :60F:C230101EUR100,00, two :61:/:86: pairs, :62F:C230131EUR130,00) parses
\* to exactly two records, both of account DE00ACCOUNT, the first without
\* closing balance, the second with (DE00ACCOUNT, 230131, 130.00).
C7_EndToEndParse ==
    (at = "returned" /\ file_content = EndToEndText) =>
        /\ Len(parsed_data) = 2
        /\ parsed_data[1].Account = "DE00ACCOUNT"
        /\ parsed_data[2].Account = "DE00ACCOUNT"
        /\ parsed_data[1].ClosingBalance = <<>>
        /\ parsed_data[2].ClosingBalance # <<>>
        /\ parsed_data[2].ClosingBalance[1] = "DE00ACCOUNT"
        /\ parsed_data[2].ClosingBalance[2] = "230131"
        /\ float(parsed_data[2].ClosingBalance[3]) = 13000

\* The exceptions of Python itself that a slice, an index or float() raises.
BuiltinParseErrors == {"IndexError", "ValueError", "TypeError"}

\* C12: for a file with a block that lacks an expected digit, amount
\* terminator or "?"-delimited subfield, parse_block does not return: it
\* raises, and what it raises is a typed parse failure.
C12_TypedParseFailure ==
    (file_content \in MalformedTexts /\ at \in {"returned", "raised"}) =>
        (at = "raised" /\ parse_raised \notin BuiltinParseErrors)

\* The text assembled from the subfields ?20..?29 of an :86: block.
AssembledPurpose(block) == join(" ", purpose_fields(SliceFrom(block, 4), 20))

\* C13: when the text assembled from ?20..?29 starts with SVWZ+, EREF+ or
\* KREF+, parse_block leaves PurposeAddition the prefix without "+" and
\* Purpose the assembled text without its first five characters, every
\* other character kept.
C13_PurposePrefix ==
    [][(at = "parse_block" /\ startswith(blocks[pos], ":86:")) =>
          \A p \in {"SVWZ", "EREF", "KREF"} :
             startswith(AssembledPurpose(blocks[pos]), p \o "+") =>
                /\ temp'.temp_purpose_adition = p
                /\ temp'.temp_purpose =
                      SliceFrom(AssembledPurpose(blocks[pos]), 5)]_vars

\* The text of the subfield tag of an :86: block, up to the next "?" or the
\* end of the block.
CompleteSubfield(block, tag) ==
    LET b == SliceFrom(block, 4)
        start == find(b, tag, 0) + 3
        next_qmark == find(b, "?", start)
    IN Slice(b, start, IF next_qmark >= 0 THEN next_qmark ELSE Len(b))

\* C14: for an :86: block with ?32 and ?33, CounterpartyName is the complete
\* text of ?32 followed by the complete text of ?33 (?32 "ACME Impo" and
\* ?33 "rt GmbH" give "ACME Import GmbH"), also when ?33 is the last
\* subfield.
C14_CounterpartyOverflow ==
    [][(/\ at = "parse_block"
        /\ startswith(blocks[pos], ":86:")
        /\ find(blocks[pos], "?32", 0) >= 0
        /\ find(blocks[pos], "?33", 0) >= 0) =>
          temp'.temp_counterparty_name =
              CompleteSubfield(blocks[pos], "?32")
              \o CompleteSubfield(blocks[pos], "?33")]_vars

\* The number of :61: blocks that an :86: block follows.
Pairs(blks) ==
    Cardinality({i \in 1..(Len(blks) - 1) :
                    /\ startswith(blks[i], ":61:")
                    /\ startswith(blks[i + 1], ":86:")})

\* C15: parse_block returns no more records than its input has :61:/:86:
\* pairs; a statement group without a pair contributes no record.
C15_AtMostOneRecordPerPair ==
    at = "returned" => Len(parsed_data) <= Pairs(blocks)

\* C16: a record of parse_block carries a ClosingBalance triple if and only
\* if a :62F: block emitted it; a :62F: block emits one record, a :61: flush
\* emits records without ClosingBalance, no other block emits a record.
C16_ClosingBalanceOnlyAt62F ==
    [][at = "parse_block" =>
          /\ IsPrefix(parsed_data, parsed_data')
          /\ \A i \in (Len(parsed_data) + 1)..Len(parsed_data') :
                /\ parsed_data'[i].ClosingBalance # <<>>
                      <=> startswith(blocks[pos], ":62F:")
                /\ parsed_data'[i].ClosingBalance # <<>>
                      => Len(parsed_data'[i].ClosingBalance) = 3
                /\ \/ startswith(blocks[pos], ":62F:")
                   \/ startswith(blocks[pos], ":61:")
          /\ startswith(blocks[pos], ":62F:")
                => Len(parsed_data') = Len(parsed_data) + 1]_vars

\* The two groups were parsed: the record of the first :62F: is followed by
\* a record of the second group that a :61: flush emitted.
C16_Witness ==
    /\ at = "returned"
    /\ file_content = GroupsText
    /\ Len(parsed_data) = 3
    /\ parsed_data[1].ClosingBalance # <<>>
    /\ parsed_data[2].ClosingBalance = <<>>
    /\ parsed_data[3].ClosingBalance # <<>>

\* C17: every block split_toblocks_mt940 returns begins with ":".
C17_BlocksBeginWithTag ==
    at # "split_toblocks_mt940" =>
        \A i \in 1..Len(blocks) : startswith(blocks[i], ":")

\* The lines of ls that start with ":".
TagLines(ls) == {i \in 1..Len(ls) : startswith(ls[i], ":")}

\* A line of whitespace only.
IsBlank(line) == \A k \in 1..Len(line) : Char(line, k) \in Whitespace

\* The first tag line after line i, Len(ls) + 1 when there is none.
NextTagLine(ls, i) ==
    LET later == {j \in TagLines(ls) : j > i}
    IN IF later = {} THEN Len(ls) + 1
       ELSE CHOOSE j \in later : \A k \in later : j <= k

\* The non-blank lines a..b of ls one after the other, nothing in between.
RECURSIVE NonBlankLines(_, _, _)
NonBlankLines(ls, a, b) ==
    IF a > b THEN ""
    ELSE (IF IsBlank(ls[a]) THEN "" ELSE ls[a]) \o NonBlankLines(ls, a + 1, b)

\* C18: for a text whose first non-blank line starts with ":",
\* split_toblocks_mt940 returns one block per tag line, in the order of the
\* text, each the tag line followed by the non-blank lines up to the next
\* tag line; the last open block is among them.
C18_OneBlockPerTagLine ==
    (/\ at # "split_toblocks_mt940"
     /\ \A i \in 1..Len(lines) :
           (\A j \in 1..(i - 1) : IsBlank(lines[j]))
               => (IsBlank(lines[i]) \/ startswith(lines[i], ":"))) =>
        /\ Len(blocks) = Cardinality(TagLines(lines))
        /\ \A i \in TagLines(lines) :
              blocks[Cardinality({j \in TagLines(lines) : j <= i})] =
                  lines[i] \o NonBlankLines(lines, i + 1,
                                            NextTagLine(lines, i) - 1)

\* The text with blank lines and a wrapped :86: payload was split.
C18_Witness ==
    /\ at = "returned"
    /\ file_content = WrappedText
    /\ Len(blocks) = 6
    /\ blocks[5] = Line86Rent
    /\ blocks[6] = Line62F

\* Whitespace-only lines.
BlankLines == {"", "  ", "\t"}

\* ls with the line x put after its k-th line, and ls without its k-th line.
InsertAt(ls, k, x) == SubSeq(ls, 1, k) \o <<x>> \o SubSeq(ls, k + 1, Len(ls))
RemoveAt(ls, k) == SubSeq(ls, 1, k - 1) \o SubSeq(ls, k + 1, Len(ls))

\* C19: the blocks of a text are the blocks of the same text with one more
\* whitespace-only line at any place, and with any of its whitespace-only
\* lines taken out; a text of whitespace-only lines (the empty text among
\* them) has no block.
C19_BlankLinesIgnored ==
    at # "split_toblocks_mt940" =>
        /\ \A k \in 0..Len(lines), b \in BlankLines :
              split_toblocks_mt940(Text(InsertAt(lines, k, b))) = blocks
        /\ \A k \in 1..Len(lines) :
              IsBlank(lines[k]) =>
                  split_toblocks_mt940(Text(RemoveAt(lines, k))) = blocks
        /\ (\A k \in 1..Len(lines) : IsBlank(lines[k])) => blocks = <<>>

\* A text with a whitespace-only line between a tag line and its
\* continuation line was split.
C19_Witness ==
    /\ at = "returned"
    /\ \E k \in 2..(Len(lines) - 1) :
          /\ IsBlank(lines[k])
          /\ startswith(lines[k - 1], ":")
          /\ ~IsBlank(lines[k + 1])
          /\ ~startswith(lines[k + 1], ":")
    /\ Len(blocks) > 0

\* C20: a :62F: block leaves every temp_* variable reset, so that the records
\* of the blocks after it are the records parse_block returns for those
\* blocks alone: no field of theirs comes from a block before the :62F:.
C20_ResetAt62F ==
    at = "returned" =>
        \A p \in 1..Len(blocks) :
           startswith(blocks[p], ":62F:") =>
              LET earlier == parse_block(SubSeq(blocks, 1, p)).parsed_data
                  later == parse_block(SubSeq(blocks, p + 1, Len(blocks)))
              IN /\ later.err = ""
                 /\ parsed_data = earlier \o later.parsed_data

\* The decimal amount that starts at offset a of a block, comma read as
\* decimal point, in cents.
DecimalAmount(block, a) == float(replace(SliceFrom(block, a), ",", "."))

\* C21: a block :60F:<marker><date><currency><amount> leaves OpeningBalance
\* the decimal amount, negative for the marker D, positive for the marker C.
C21_OpeningBalanceSigned ==
    [][(/\ at = "parse_block"
        /\ startswith(blocks[pos], ":60F:")
        /\ Index(blocks[pos], 5) \in {"C", "D"}
        /\ DecimalAmount(blocks[pos], 15) # FloatError) =>
          temp'.temp_opening_balance =
              <<IF Index(blocks[pos], 5) = "D"
                THEN 0 - DecimalAmount(blocks[pos], 15)
                ELSE DecimalAmount(blocks[pos], 15)>>]_vars

\* C22: a block :62F:<marker><date><currency><amount> emits a record whose
\* ClosingBalance is (the current account number, the six digits of the
\* date, the amount): the value of the amount is the whole decimal amount
\* of the block, negative for the marker D, positive for the marker C.
C22_ClosingBalanceTriple ==
    [][(/\ at = "parse_block"
        /\ startswith(blocks[pos], ":62F:")
        /\ Index(blocks[pos], 5) \in {"C", "D"}
        /\ DecimalAmount(blocks[pos], 15) # FloatError) =>
          /\ Len(parsed_data') = Len(parsed_data) + 1
          /\ \A cb \in {parsed_data'[Len(parsed_data')].ClosingBalance} :
                /\ Len(cb) = 3
                /\ cb[1] = temp.temp_account_number
                /\ cb[2] = Slice(blocks[pos], 6, 12)
                /\ float(cb[3]) =
                      IF Index(blocks[pos], 5) = "D"
                      THEN 0 - DecimalAmount(blocks[pos], 15)
                      ELSE DecimalAmount(blocks[pos], 15)]_vars

\* The offsets of the digits of b behind the credit/debit marker.
DigitsBehindMarker(b) == {i \in 11..(Len(b) - 1) : isdigit(Index(b, i))}

\* The offset behind the run of digits and commas of b that starts at a.
RunEnd(b, a) ==
    CHOOSE e \in (a + 1)..Len(b) :
       /\ \A i \in a..(e - 1) : isdigit(Index(b, i)) \/ Index(b, i) = ","
       /\ e = Len(b) \/ ~(isdigit(Index(b, e)) \/ Index(b, e) = ",")

\* The run of digits and commas that starts at the first digit behind the
\* marker of the :61: block.
AmountRun(block) ==
    LET b == SliceFrom(block, 4)
        a == CHOOSE i \in DigitsBehindMarker(b) :
                \A j \in DigitsBehindMarker(b) : i <= j
    IN [text |-> Slice(b, a, RunEnd(b, a)),
        next |-> IF RunEnd(b, a) < Len(b) THEN Index(b, RunEnd(b, a)) ELSE ""]

\* C24: for a :61: block whose amount run is followed by S, N or F, the
\* magnitude of Amount is the value of that run, whatever follows in the
\* block.
C24_AmountRun ==
    [][(/\ at = "parse_block"
        /\ startswith(blocks[pos], ":61:")
        /\ DigitsBehindMarker(SliceFrom(blocks[pos], 4)) # {}
        /\ AmountRun(blocks[pos]).next \in {"S", "N", "F"}) =>
          /\ parse_raised' = ""
          /\ temp'.temp_amount \in
                {<<float(replace(AmountRun(blocks[pos]).text, ",", "."))>>,
                 <<0 - float(replace(AmountRun(blocks[pos]).text, ",", "."))>>}]_vars

\* The offsets i of the :61: blocks of blks that an :86: block follows.
PairsAt(blks) ==
    {i \in 1..(Len(blks) - 1) :
        startswith(blks[i], ":61:") /\ startswith(blks[i + 1], ":86:")}

\* The date, amount and purpose that the :61: block b61 and the :86: block
\* b86 hold.
PairFields(b61, b86) ==
    LET m == parse_61(b61, NoTemp, FALSE, <<>>).temp
        p == parse_86(b86, NoTemp, FALSE, <<>>).temp
    IN [Date |-> m.temp_date, Amount |-> m.temp_amount,
        Purpose |-> p.temp_purpose]

\* C27: for blocks that end with a :62F: block, every :61:/:86: pair has
\* exactly one record with its date, amount and purpose, also a pair that
\* is followed by a :20: block.
C27_NoPairLost ==
    (/\ at = "returned"
     /\ Len(blocks) > 0
     /\ startswith(blocks[Len(blocks)], ":62F:")) =>
        \A i \in PairsAt(blocks) :
           Cardinality({k \in 1..Len(parsed_data) :
                          [Date |-> parsed_data[k].Date,
                           Amount |-> parsed_data[k].Amount,
                           Purpose |-> parsed_data[k].Purpose]
                          = PairFields(blocks[i], blocks[i + 1])}) = 1

\* C28: an :86: block whose assembled purpose starts with none of SVWZ+,
\* EREF+, KREF+ leaves the transaction without PurposeAddition.
C28_PurposeAdditionOwnBlock ==
    [][(/\ at = "parse_block"
        /\ startswith(blocks[pos], ":86:")
        /\ \A p \in {"SVWZ+", "EREF+", "KREF+"} :
              ~startswith(AssembledPurpose(blocks[pos]), p)) =>
          temp'.temp_purpose_adition = NoneStr]_vars

====
